---- MODULE Spec2Model ----
(***************************************************************************)
(* Service bootstrap and request-admission gate of the todo-app server:    *)
(*   server/src/index.js     configuration resolver + bootstrap sequencer  *)
(*   server/src/db/index.js  store connector (connectDB)                   *)
(*   server/src/app.js       express app wiring (cors, morgan)             *)
(*   server/src/constants.js DB_NAME and corsOptions (origin policy gate)  *)
(***************************************************************************)
EXTENDS Naturals, Integers, Sequences, FiniteSets, TLC

(* ------------------------------------------------------------------ *)
(* Bounds                                                             *)
(* ------------------------------------------------------------------ *)

\* number of inbound requests handled after the listener is up
MaxRequests == 3

(* ------------------------------------------------------------------ *)
(* JavaScript values                                                  *)
(* ------------------------------------------------------------------ *)

\* the JS value undefined (an environment key that is not set)
undefined == "<undefined>"

\* the JS value null (first argument of a callback that reports no error)
null == "<null>"

\* a promise that has not settled yet
pending == "<pending>"

\* JS falsiness of a string-or-undefined value: !v
Falsy(v) == v = undefined \/ v = ""

\* JS a || b
Or(a, b) == IF Falsy(a) THEN b ELSE a

\* JS template-literal interpolation ${v} of a string-or-undefined value
Interpolate(v) == IF v = undefined THEN "undefined" ELSE v

Digit(d) == CASE d = 0 -> "0" [] d = 1 -> "1" [] d = 2 -> "2" [] d = 3 -> "3"
              [] d = 4 -> "4" [] d = 5 -> "5" [] d = 6 -> "6" [] d = 7 -> "7"
              [] d = 8 -> "8" [] d = 9 -> "9"

\* JS String(n) of a non-negative integer
RECURSIVE NumberToString(_)
NumberToString(n) ==
    IF n < 10 THEN Digit(n) ELSE NumberToString(n \div 10) \o Digit(n % 10)

\* Array.prototype.indexOf: zero-based index of the first element equal to x, or -1
RECURSIVE IndexFrom(_, _, _)
IndexFrom(arr, x, i) ==
    IF i > Len(arr) THEN -1
    ELSE IF arr[i] = x THEN i - 1
    ELSE IndexFrom(arr, x, i + 1)

indexOf(arr, x) == IndexFrom(arr, x, 1)

(* ------------------------------------------------------------------ *)
(* Process environment and configuration sources                      *)
(* ------------------------------------------------------------------ *)

\* the environment keys the program reads
Keys == {"NODE_ENV", "PORT", "MONGODB_URI"}

NodeEnvValues == {undefined, "", "development", "test", "production", "staging"}
PortValues    == {undefined, "", "3000", "8080", "70000"}
UriValues     == {undefined, "mongodb://localhost:27017"}

\* process.cwd()
Cwd == "/server"

\* path.resolve(process.cwd(), "src", "config", name)
ResolvePath(name) == Cwd \o "/" \o "src" \o "/" \o "config" \o "/" \o name

NoVars == [k \in Keys |-> undefined]

\* a configuration source: absent, or a file defining some of the keys
Absent    == [exists |-> FALSE, vars |-> NoVars]
FileProd  == [exists |-> TRUE,
              vars |-> [NoVars EXCEPT !["NODE_ENV"] = "production"]]
FileLocal == [exists |-> TRUE,
              vars |-> [NoVars EXCEPT !["PORT"] = "5000",
                                      !["MONGODB_URI"] = "mongodb://db:27017"]]
FileContents == {Absent, FileProd, FileLocal}

\* the sources index.js can name over NodeEnvValues (an unset or empty name reads
\* as "development"; under "production" no source is read)
ConfigPaths == {ResolvePath(".env." \o n) : n \in {"development", "test", "staging"}}

\* the file at path p of the given file system (absent when nothing is there)
ReadFile(files, p) == IF p \in DOMAIN files THEN files[p] ELSE Absent

\* dotenv.config({ path }): reads the file and copies each key it defines into the
\* environment unless the environment already has that key; a missing file is
\* reported in the returned value (error) and the environment is left as it was
DotenvConfig(env, files, p) ==
    LET f == ReadFile(files, p) IN
    IF ~f.exists
    THEN [error |-> TRUE, env |-> env]
    ELSE [error |-> FALSE,
          env |-> [k \in Keys |-> IF env[k] = undefined THEN f.vars[k] ELSE env[k]]]

(* ------------------------------------------------------------------ *)
(* constants.js                                                       *)
(* ------------------------------------------------------------------ *)

DB_NAME == "taskflow"

\* a whitelist that ships with an entry
whitelist_nonEmpty == << "https://example.com" >>

\* const whitelist = []
whitelist == << >>

\* the gate with the open branch taken for "development" only
OriginPolicy_devOnly(wl, origin, nodeEnv) ==
    IF nodeEnv = "development"
    THEN << [err |-> null, allow |-> TRUE] >>
    ELSE IF indexOf(wl, origin) # -1 \/ Falsy(origin)
         THEN << [err |-> null, allow |-> TRUE] >>
         ELSE << [err |-> "Not allowed by CORS", allow |-> FALSE] >>

\* the gate without the `|| !origin` disjunct
OriginPolicy_noEmptyOrigin(wl, origin, nodeEnv) ==
    IF nodeEnv # "production"
    THEN << [err |-> null, allow |-> TRUE] >>
    ELSE IF indexOf(wl, origin) # -1
         THEN << [err |-> null, allow |-> TRUE] >>
         ELSE << [err |-> "Not allowed by CORS", allow |-> FALSE] >>

\* the outer `else` dropped: outside production the callback is invoked and the
\* whitelist test then runs as well
OriginPolicy_missingElse(wl, origin, nodeEnv) ==
    (IF nodeEnv # "production" THEN << [err |-> null, allow |-> TRUE] >> ELSE << >>)
    \o (IF indexOf(wl, origin) # -1 \/ Falsy(origin)
        THEN << [err |-> null, allow |-> TRUE] >>
        ELSE << [err |-> "Not allowed by CORS", allow |-> FALSE] >>)

\* corsOptions.origin with the whitelist made explicit: the sequence of callback
\* invocations, each the (err, allow) pair handed to the callback
OriginPolicy(wl, origin, nodeEnv) ==
    IF nodeEnv # "production"
    THEN << [err |-> null, allow |-> TRUE] >>
    ELSE IF indexOf(wl, origin) # -1 \/ Falsy(origin)
         THEN << [err |-> null, allow |-> TRUE] >>
         ELSE << [err |-> "Not allowed by CORS", allow |-> FALSE] >>

\* corsOptions.origin(origin, callback), reading process.env.NODE_ENV = nodeEnv
corsOptionsOrigin(origin, nodeEnv) == OriginPolicy(whitelist, origin, nodeEnv)

\* a contract that drops PATCH and switches credentials off
corsOptions_noPatch ==
    [ methods             |-> << "GET", "POST", "PUT", "DELETE" >>,
      allowedHeaders      |-> << "Content-Type", "Authorization" >>,
      credentials         |-> FALSE,
      optionSuccessStatus |-> 204 ]

\* constants.js: the static members of corsOptions, under the keys the file uses
\* (the last key is spelt `optionSuccessStatus` in the file)
corsOptions ==
    [ methods             |-> << "GET", "POST", "PUT", "PATCH", "DELETE" >>,
      allowedHeaders      |-> << "Content-Type", "Authorization" >>,
      credentials         |-> TRUE,
      optionSuccessStatus |-> 204 ]

\* the options the cors middleware starts from; a key the application sets replaces
\* the default of the same name
corsDefaults ==
    [ methods              |-> << "GET", "HEAD", "PUT", "PATCH", "POST", "DELETE" >>,
      preflightContinue    |-> FALSE,
      optionsSuccessStatus |-> 204 ]

\* cors(options): the effective configuration of the middleware
cors(options) ==
    [ k \in DOMAIN corsDefaults \cup DOMAIN options |->
        IF k \in DOMAIN options THEN options[k] ELSE corsDefaults[k] ]

\* the response contract of the middleware mounted by app.use(cors(corsOptions)):
\* the members the middleware reads when it answers
corsContract ==
    [ methods        |-> cors(corsOptions).methods,
      allowedHeaders |-> cors(corsOptions).allowedHeaders,
      credentials    |-> cors(corsOptions).credentials,
      preflightStatus|-> cors(corsOptions).optionsSuccessStatus ]

\* origins a request may declare (no Origin header, an empty one, two sites)
Origins == {undefined, "", "https://a.com", "https://example.com"}

(* ------------------------------------------------------------------ *)
(* State                                                              *)
(* ------------------------------------------------------------------ *)

VARIABLES
    pc,               \* position of the main module's execution
    processEnv,       \* process.env, restricted to Keys
    fs,               \* the configuration directory: path -> source
    morganFormat,     \* format app.js chose for morgan
    environmentName,  \* index.js: const environmentName
    envFilePath,      \* index.js: const envFilePath
    dotenvLoads,      \* paths handed to dotenv.config, in order
    consoleTransports,\* Console transports added to the logger
    log,              \* logger events, in order
    connectCalls,     \* URIs handed to mongoose.connect, in order
    dbReady,          \* the mongoose connection is established
    connectDBResult,  \* what `await connectDB()` yields to initailizeApp
    listenCalls,      \* ports handed to app.listen, in order
    bound,            \* the listener accepts connections
    exitCalls,        \* statuses handed to process.exit, in order
    requests          \* requests admitted so far, in order

vars == << pc, processEnv, fs, morganFormat, environmentName, envFilePath,
           dotenvLoads, consoleTransports, log, connectCalls, dbReady, connectDBResult,
           listenCalls, bound, exitCalls, requests >>

bootVars == << pc, processEnv, fs, morganFormat, environmentName, envFilePath,
               dotenvLoads, consoleTransports, log, connectCalls, dbReady, connectDBResult,
               listenCalls, bound, exitCalls >>

\* the process as the operating system starts it: the imports of index.js have not
\* run yet, the environment and the configuration directory are whatever the
\* deployment provides
Init ==
    /\ pc = "import"
    /\ \E ne \in NodeEnvValues, po \in PortValues, uri \in UriValues :
           processEnv = [NODE_ENV |-> ne, PORT |-> po, MONGODB_URI |-> uri]
    /\ fs \in [ConfigPaths -> FileContents]
    /\ morganFormat = undefined
    /\ environmentName = undefined
    /\ envFilePath = undefined
    /\ dotenvLoads = << >>
    /\ consoleTransports = 0
    /\ log = << >>
    /\ connectCalls = << >>
    /\ dbReady = FALSE
    /\ connectDBResult = pending
    /\ listenCalls = << >>
    /\ bound = FALSE
    /\ exitCalls = << >>
    /\ requests = << >>

(* ------------------------------------------------------------------ *)
(* app.js, evaluated by the import in index.js                        *)
(* ------------------------------------------------------------------ *)

\* import app from "./app.js": the app is created, cors(corsOptions) and the body
\* parsers are registered, and morgan's format is chosen from process.env.NODE_ENV
importApp ==
    /\ pc = "import"
    /\ morganFormat' = IF processEnv["NODE_ENV"] # "production" THEN "dev" ELSE "combined"
    /\ pc' = "config"
    /\ UNCHANGED << processEnv, fs, environmentName, envFilePath, dotenvLoads,
                    consoleTransports, log, connectCalls, dbReady, connectDBResult, listenCalls,
                    bound, exitCalls, requests >>

(* ------------------------------------------------------------------ *)
(* index.js: configuration resolver                                   *)
(* ------------------------------------------------------------------ *)

\* the default applied with ?? instead of ||: an empty name is kept
EnvironmentName_nullish(env) ==
    IF env["NODE_ENV"] = undefined THEN "development" ELSE env["NODE_ENV"]

\* const environmentName = process.env.NODE_ENV || "development"
EnvironmentName(env) == Or(env["NODE_ENV"], "development")

\* const envFileName = `.env.${environmentName}`
EnvFileName(name) == ".env." \o Interpolate(name)

\* const envFilePath = path.resolve(process.cwd(), "src", "config", envFileName)
EnvFilePath(name) == ResolvePath(EnvFileName(name))

\* the resolver without the production check: the source is loaded in every environment
resolveConfiguration_alwaysLoad ==
    /\ pc = "config"
    /\ LET name == EnvironmentName(processEnv)
           path == EnvFilePath(name)
       IN  /\ environmentName' = name
           /\ envFilePath' = path
           /\ dotenvLoads' = Append(dotenvLoads, path)
           /\ processEnv' = DotenvConfig(processEnv, fs, path).env
           /\ consoleTransports' = consoleTransports + 1
    /\ pc' = "initialize"
    /\ UNCHANGED << fs, morganFormat, log, connectCalls, dbReady, connectDBResult, listenCalls,
                    bound, exitCalls, requests >>

\* the resolver treating the error dotenv reports for a missing source as fatal
resolveConfiguration_fatal ==
    /\ pc = "config"
    /\ LET name == EnvironmentName(processEnv)
           path == EnvFilePath(name)
           failed == name # "production" /\ DotenvConfig(processEnv, fs, path).error
       IN  /\ environmentName' = name
           /\ envFilePath' = path
           /\ IF name # "production"
              THEN /\ dotenvLoads' = Append(dotenvLoads, path)
                   /\ processEnv' = DotenvConfig(processEnv, fs, path).env
                   /\ consoleTransports' = IF failed THEN consoleTransports
                                           ELSE consoleTransports + 1
              ELSE UNCHANGED << dotenvLoads, processEnv, consoleTransports >>
           /\ pc' = IF failed THEN "exited" ELSE "initialize"
           /\ exitCalls' = IF failed THEN Append(exitCalls, 1) ELSE exitCalls
    /\ UNCHANGED << fs, morganFormat, log, connectCalls, dbReady, connectDBResult, listenCalls,
                    bound, requests >>

\* index.js lines 10-28: the names are computed; outside production the source is
\* loaded (its result is ignored) and a Console transport is added to the logger
resolveConfiguration ==
    /\ pc = "config"
    /\ LET name == EnvironmentName(processEnv)
           path == EnvFilePath(name)
       IN  /\ environmentName' = name
           /\ envFilePath' = path
           /\ IF name # "production"
              THEN /\ dotenvLoads' = Append(dotenvLoads, path)
                   /\ processEnv' = DotenvConfig(processEnv, fs, path).env
                   /\ consoleTransports' = consoleTransports + 1
              ELSE UNCHANGED << dotenvLoads, processEnv, consoleTransports >>
    /\ pc' = "initialize"
    /\ UNCHANGED << fs, morganFormat, log, connectCalls, dbReady, connectDBResult, listenCalls,
                    bound, exitCalls, requests >>

(* ------------------------------------------------------------------ *)
(* db/index.js: store connector, and index.js: bootstrap sequencer    *)
(* ------------------------------------------------------------------ *)

\* a database name that follows the environment: a suffix outside production
ConnectionUri_perEnvironment(env) ==
    Interpolate(env["MONGODB_URI"]) \o "/" \o
        (IF env["NODE_ENV"] = "production" THEN DB_NAME ELSE DB_NAME \o "_dev")

\* `${process.env.MONGODB_URI}/${DB_NAME}`
ConnectionUri(env) == Interpolate(env["MONGODB_URI"]) \o "/" \o DB_NAME

\* the driver only establishes a connection for a URI whose base is configured
\* ("undefined/taskflow" and "/taskflow" are rejected as malformed)
WellFormedUri(env) == ~Falsy(env["MONGODB_URI"])

\* the connection started while index.js has not resolved the configuration yet
\* (a connect call at the top level of an imported module)
initailizeApp_beforeConfig ==
    /\ pc = "config"
    /\ connectCalls' = Append(connectCalls, ConnectionUri(processEnv))
    /\ pc' = "connecting"
    /\ UNCHANGED << processEnv, fs, morganFormat, environmentName, envFilePath,
                    dotenvLoads, consoleTransports, log, dbReady, connectDBResult,
                    listenCalls, bound, exitCalls, requests >>

\* initailizeApp() -> connectDB(): runs up to `await mongoose.connect(uri)`
initailizeApp ==
    /\ pc = "initialize"
    /\ connectCalls' = Append(connectCalls, ConnectionUri(processEnv))
    /\ pc' = "connecting"
    /\ UNCHANGED << processEnv, fs, morganFormat, environmentName, envFilePath,
                    dotenvLoads, consoleTransports, log, dbReady, connectDBResult, listenCalls,
                    bound, exitCalls, requests >>

\* what mongoose.connect resolves with: const connectionInstance
connectionInstance == "<mongoose>"

\* the error mongoose.connect rejects with for the URI built from env
ConnectError(env) ==
    IF WellFormedUri(env) THEN "MongooseServerSelectionError" ELSE "MongoParseError"

\* connectDB with `return connectionInstance` after the log
connectDBResolved_returnsHandle ==
    /\ pc = "connecting"
    /\ WellFormedUri(processEnv)
    /\ dbReady' = TRUE
    /\ connectDBResult' = connectionInstance
    /\ log' = Append(log, [level |-> "info", message |-> "Database Connection Successful"])
    /\ pc' = "connected"
    /\ UNCHANGED << processEnv, fs, morganFormat, environmentName, envFilePath,
                    dotenvLoads, consoleTransports, connectCalls, listenCalls,
                    bound, exitCalls, requests >>

\* connectDB calling mongoose.connect without awaiting it: success is reported
\* while the connection is not established
connectDBResolved_beforeReady ==
    /\ pc = "connecting"
    /\ connectDBResult' = undefined
    /\ log' = Append(log, [level |-> "info", message |-> "Database Connection Successful"])
    /\ pc' = "connected"
    /\ UNCHANGED << processEnv, fs, morganFormat, environmentName, envFilePath,
                    dotenvLoads, consoleTransports, connectCalls, dbReady, listenCalls,
                    bound, exitCalls, requests >>

\* connectDB, try branch: the connection is established and kept in the local
\* connectionInstance, the success is logged and the promise connectDB returned is
\* fulfilled with no value (the function has no return statement)
connectDBResolved ==
    /\ pc = "connecting"
    /\ WellFormedUri(processEnv)
    /\ dbReady' = TRUE
    /\ connectDBResult' = undefined
    /\ log' = Append(log, [level |-> "info", message |-> "Database Connection Successful"])
    /\ pc' = "connected"
    /\ UNCHANGED << processEnv, fs, morganFormat, environmentName, envFilePath,
                    dotenvLoads, consoleTransports, connectCalls, listenCalls,
                    bound, exitCalls, requests >>

\* a catch branch that logs and returns, without process.exit
connectDBRejected_noExit ==
    /\ pc = "connecting"
    /\ log' = Append(log, [level |-> "error", message |-> "MONGODB CONNECTION FAILED!!",
                           err |-> ConnectError(processEnv)])
    /\ connectDBResult' = undefined
    /\ pc' = "connected"
    /\ UNCHANGED << processEnv, fs, morganFormat, environmentName, envFilePath,
                    dotenvLoads, consoleTransports, connectCalls, dbReady,
                    listenCalls, bound, exitCalls, requests >>

\* a catch branch that exits without logging the failure
connectDBRejected_silent ==
    /\ pc = "connecting"
    /\ exitCalls' = Append(exitCalls, 1)
    /\ pc' = "exited"
    /\ UNCHANGED << processEnv, fs, morganFormat, environmentName, envFilePath,
                    dotenvLoads, consoleTransports, log, connectCalls, dbReady,
                    connectDBResult, listenCalls, bound, requests >>

\* a catch branch that logs the failure and tries the connection again
connectDBRejected_retry ==
    /\ pc = "connecting"
    /\ log' = Append(log, [level |-> "error", message |-> "MONGODB CONNECTION FAILED!!",
                           err |-> ConnectError(processEnv)])
    /\ pc' = "initialize"
    /\ UNCHANGED << processEnv, fs, morganFormat, environmentName, envFilePath,
                    dotenvLoads, consoleTransports, connectCalls, dbReady,
                    connectDBResult, listenCalls, bound, exitCalls, requests >>

\* a catch branch that logs and throws the error again: the promise of connectDB
\* rejects, nothing handles the rejection and the process ends with status 1
connectDBRejected_rethrows ==
    /\ pc = "connecting"
    /\ log' = Append(log, [level |-> "error", message |-> "MONGODB CONNECTION FAILED!!",
                           err |-> ConnectError(processEnv)])
    /\ connectDBResult' = "<rejected>"
    /\ exitCalls' = Append(exitCalls, 1)
    /\ pc' = "exited"
    /\ UNCHANGED << processEnv, fs, morganFormat, environmentName, envFilePath,
                    dotenvLoads, consoleTransports, connectCalls, dbReady,
                    listenCalls, bound, requests >>

\* connectDB, catch branch: the failure is logged and process.exit(1) ends the process
connectDBRejected ==
    /\ pc = "connecting"
    /\ log' = Append(log, [level |-> "error", message |-> "MONGODB CONNECTION FAILED!!",
                           err |-> ConnectError(processEnv)])
    /\ exitCalls' = Append(exitCalls, 1)
    /\ pc' = "exited"
    /\ UNCHANGED << processEnv, fs, morganFormat, environmentName, envFilePath,
                    dotenvLoads, consoleTransports, connectCalls, dbReady, connectDBResult,
                    listenCalls, bound, requests >>

\* the fallback of `process.env.PORT || 8080`
FallbackPort == 8080

\* the port with the fallback of the documented variant (3000)
Port_fallback3000(env) == Or(env["PORT"], "3000")

\* const PORT = process.env.PORT || 8080, as it prints in a template literal
Port(env) == Or(env["PORT"], NumberToString(FallbackPort))

\* the digit a one-character string stands for
DigitOf(c) == CHOOSE d \in 0..9 : Digit(d) = c

\* Number(s) of a string of decimal digits
RECURSIVE StringToNumber(_)
StringToNumber(s) ==
    IF Len(s) = 0 THEN 0
    ELSE StringToNumber(SubSeq(s, 1, Len(s) - 1)) * 10 + DigitOf(SubSeq(s, Len(s), Len(s)))

\* the largest port number listen() accepts
MaxPort == 65535

\* listen() throws for a port outside 0..65535
LegalPort(p) == StringToNumber(p) <= MaxPort

\* startServer called without awaiting connectDB
startServer_noAwait ==
    /\ pc = "connecting"
    /\ listenCalls' = Append(listenCalls, Port(processEnv))
    /\ bound' = TRUE
    /\ pc' = "binding"
    /\ UNCHANGED << processEnv, fs, morganFormat, environmentName, envFilePath,
                    dotenvLoads, consoleTransports, log, connectCalls, dbReady, connectDBResult,
                    exitCalls, requests >>

\* startServer attaches the Console transport itself, whatever the environment
startServer_addsConsole ==
    /\ pc = "connected"
    /\ consoleTransports' = consoleTransports + 1
    /\ listenCalls' = Append(listenCalls, Port(processEnv))
    /\ bound' = TRUE
    /\ pc' = "binding"
    /\ UNCHANGED << processEnv, fs, morganFormat, environmentName, envFilePath,
                    dotenvLoads, log, connectCalls, dbReady, connectDBResult,
                    exitCalls, requests >>

\* startServer(): app.listen(PORT, callback) is called after `await connectDB()`.
\* A port listen() does not accept makes the call throw: initailizeApp rejects,
\* nothing handles the rejection and the process ends. Otherwise the socket is
\* bound inside the call when the port is free (portFree, the deployment's); when
\* it is taken the call returns with nothing bound and the error is reported later.
startServer ==
    /\ pc = "connected"
    /\ listenCalls' = Append(listenCalls, Port(processEnv))
    /\ \E portFree \in BOOLEAN :
         IF ~LegalPort(Port(processEnv))
         THEN bound' = bound /\ pc' = "crashed"
         ELSE bound' = portFree /\ pc' = "binding"
    /\ UNCHANGED << processEnv, fs, morganFormat, environmentName, envFilePath,
                    dotenvLoads, consoleTransports, log, connectCalls, dbReady, connectDBResult,
                    exitCalls, requests >>

\* the listener callback opens the store connection a second time, replacing the
\* established one
listenCallback_reconnects ==
    /\ pc = "binding"
    /\ connectCalls' = Append(connectCalls, ConnectionUri(processEnv))
    /\ dbReady' = FALSE
    /\ log' = Append(log, [level |-> "info",
                           message |-> "Server is listening on port " \o listenCalls[Len(listenCalls)]])
    /\ pc' = IF bound THEN "listening" ELSE "unbound"
    /\ UNCHANGED << processEnv, fs, morganFormat, environmentName, envFilePath,
                    dotenvLoads, consoleTransports, connectDBResult,
                    listenCalls, bound, exitCalls, requests >>

\* the callback handed to app.listen runs and logs the readiness. With the listener
\* bound this is the 'listening' event. With the port taken it runs only under an
\* express whose app.listen also registers the callback for the server's 'error'
\* event (express 5): the callback ignores its argument and logs all the same,
\* nothing listens and the process lives on. The sources do not fix the version.
listenCallback ==
    /\ pc = "binding"
    /\ log' = Append(log, [level |-> "info",
                           message |-> "Server is listening on port " \o listenCalls[Len(listenCalls)]])
    /\ pc' = IF bound THEN "listening" ELSE "unbound"
    /\ UNCHANGED << processEnv, fs, morganFormat, environmentName, envFilePath,
                    dotenvLoads, consoleTransports, connectCalls, dbReady, connectDBResult,
                    listenCalls, bound, exitCalls, requests >>

\* the port is taken and nothing listens for the server's 'error' event (express 4):
\* the error is uncaught and the process ends with status 1, process.exit not called
listenError ==
    /\ pc = "binding"
    /\ ~bound
    /\ pc' = "crashed"
    /\ UNCHANGED << processEnv, fs, morganFormat, environmentName, envFilePath,
                    dotenvLoads, consoleTransports, log, connectCalls, dbReady, connectDBResult,
                    listenCalls, bound, exitCalls, requests >>

\* the driver settles the connection attempt, one way or the other
connectSettled == connectDBResolved \/ connectDBRejected

\* the state of the bootstrap sequencer
state ==
    CASE pc \in {"import", "config"}          -> "INIT"
      [] pc \in {"initialize", "connecting"}  -> "CONFIG_LOADED"
      [] pc \in {"connected", "binding", "unbound"} -> "STORE_CONNECTED"
      [] pc = "listening"                     -> "LISTENING"
      [] pc \in {"exited", "crashed"}         -> "FAILED"

(* ------------------------------------------------------------------ *)
(* Requests: app.use(cors(corsOptions))                               *)
(* ------------------------------------------------------------------ *)

\* the outcome the cors middleware gives a request from the gate's callback
\* invocations: an error goes to next(err) and the request is rejected, otherwise
\* the request moves on to the rest of the pipeline
Admission(calls) ==
    IF \E i \in 1..Len(calls) : calls[i].err # null THEN "rejected" ELSE "inflight"

\* a gate whose denial ends the process, as connectDB's catch branch does
handleRequest_exitOnDeny(o) ==
    /\ pc = "listening"
    /\ Len(requests) < MaxRequests
    /\ LET calls == corsOptionsOrigin(o, processEnv["NODE_ENV"])
           deny == Admission(calls) = "rejected"
       IN  /\ requests' = Append(requests,
                                 [origin |-> o,
                                  nodeEnv |-> processEnv["NODE_ENV"],
                                  callbacks |-> calls,
                                  stage |-> Admission(calls)])
           /\ pc' = IF deny THEN "exited" ELSE pc
           /\ exitCalls' = IF deny THEN Append(exitCalls, 1) ELSE exitCalls
    /\ UNCHANGED << processEnv, fs, morganFormat, environmentName, envFilePath,
                    dotenvLoads, consoleTransports, log, connectCalls, dbReady, connectDBResult,
                    listenCalls, bound >>

\* a gate that keeps its whitelist between calls and adds each origin it has seen
handleRequest_remembers(o) ==
    /\ pc = "listening"
    /\ Len(requests) < MaxRequests
    /\ LET seen == [i \in 1..Len(requests) |-> requests[i].origin]
           calls == OriginPolicy(seen, o, processEnv["NODE_ENV"])
       IN  requests' = Append(requests,
                              [origin |-> o,
                               nodeEnv |-> processEnv["NODE_ENV"],
                               callbacks |-> calls,
                               stage |-> Admission(calls)])
    /\ UNCHANGED << pc, processEnv, fs, morganFormat, environmentName, envFilePath,
                    dotenvLoads, consoleTransports, log, connectCalls, dbReady, connectDBResult,
                    listenCalls, bound, exitCalls >>

\* requests served as soon as the app exists, before the bootstrap has finished
handleRequest_beforeListening(o) ==
    /\ pc \notin {"import", "exited"}
    /\ Len(requests) < MaxRequests
    /\ LET calls == corsOptionsOrigin(o, processEnv["NODE_ENV"]) IN
       requests' = Append(requests,
                          [origin |-> o,
                           nodeEnv |-> processEnv["NODE_ENV"],
                           callbacks |-> calls,
                           stage |-> Admission(calls)])
    /\ UNCHANGED bootVars

\* a request with Origin header o arrives: the cors middleware runs the gate, which
\* reads process.env.NODE_ENV, and acts on what the gate hands its callback
handleRequest(o) ==
    /\ pc = "listening"
    /\ Len(requests) < MaxRequests
    /\ LET calls == corsOptionsOrigin(o, processEnv["NODE_ENV"]) IN
       requests' = Append(requests,
                          [origin |-> o,
                           nodeEnv |-> processEnv["NODE_ENV"],
                           callbacks |-> calls,
                           stage |-> Admission(calls)])
    /\ UNCHANGED bootVars

\* the gate's decision kept in one variable shared by all requests: a request that
\* finishes sees the decision of the request evaluated last
completeRequest_sharedDecision(i) ==
    /\ pc = "listening"
    /\ i \in 1..Len(requests)
    /\ requests[i].stage = "inflight"
    /\ requests' = [requests EXCEPT ![i].stage = "responded",
                                    ![i].callbacks = requests[Len(requests)].callbacks]
    /\ UNCHANGED bootVars

\* an admitted request finishes the rest of the pipeline and is answered
completeRequest(i) ==
    /\ pc = "listening"
    /\ i \in 1..Len(requests)
    /\ requests[i].stage = "inflight"
    /\ requests' = [requests EXCEPT ![i].stage = "responded"]
    /\ UNCHANGED bootVars

(* ------------------------------------------------------------------ *)
(* Specification                                                      *)
(* ------------------------------------------------------------------ *)

Next ==
    \/ importApp
    \/ resolveConfiguration
    \/ initailizeApp
    \/ connectDBResolved
    \/ connectDBRejected
    \/ startServer
    \/ listenCallback
    \/ listenError
    \/ \E o \in Origins : handleRequest(o)
    \/ \E i \in 1..MaxRequests : completeRequest(i)

Spec == Init /\ [][Next]_vars

\* the run-to-completion scheduling of Node: synchronous code and a continuation or
\* callback that is ready to run is eventually run; and the assumption that the
\* driver eventually settles a connection attempt
FairSpec ==
    /\ Spec
    /\ WF_vars(importApp)
    /\ WF_vars(resolveConfiguration)
    /\ WF_vars(initailizeApp)
    /\ WF_vars(connectSettled)
    /\ WF_vars(startServer)
    /\ WF_vars(listenCallback)
    /\ WF_vars(listenError)

(* ------------------------------------------------------------------ *)
(* Properties                                                         *)
(* ------------------------------------------------------------------ *)

Range(seq) == {seq[i] : i \in 1..Len(seq)}

\* the connection attempt has failed: connectDB's catch branch has logged it
ConnectFailed == \E i \in 1..Len(log) : log[i].level = "error"

\* request r was allowed / denied by the gate
Allowed(r) == r.callbacks = << [err |-> null, allow |-> TRUE] >>
Denied(r)  == Len(r.callbacks) = 1 /\ r.callbacks[1].err # null

\* C1: whenever app.listen has been called or the listener is bound, the store
\* connection attempt has completed successfully.
C1_ListenerOnlyAfterStore ==
    (listenCalls # << >> \/ bound) => (dbReady /\ connectCalls # << >>)

C1_Witness == bound /\ dbReady /\ listenCalls # << >>

\* C2: once the connection attempt has failed the sequencer is FAILED, app.listen
\* was never called, nothing is bound and process.exit was called with a non-zero
\* status; the step on which the attempt fails takes CONFIG_LOADED to FAILED.
C2_FailedConnectNeverListens ==
    /\ [](ConnectFailed =>
            /\ state = "FAILED"
            /\ listenCalls = << >>
            /\ ~bound
            /\ exitCalls # << >>
            /\ \A i \in 1..Len(exitCalls) : exitCalls[i] # 0)
    /\ [][(~ConnectFailed /\ ConnectFailed')
            => (state = "CONFIG_LOADED" /\ state' = "FAILED")]_vars

C2_Witness == ConnectFailed /\ pc = "exited" /\ exitCalls = << 1 >>

\* C3: every request the gate evaluated under an environment name other than
\* "production" (unset and empty included) was allowed, whatever its origin.
C3_NonProductionAllowsAll ==
    \A i \in 1..Len(requests) :
        requests[i].nodeEnv # "production" => Allowed(requests[i])

C3_Witness ==
    \E i, j \in 1..Len(requests) :
        /\ requests[i].nodeEnv = undefined
        /\ requests[i].origin = "https://example.com"
        /\ requests[j].origin = ""
        /\ Allowed(requests[i])

\* C4: under "production" a request is allowed exactly when its origin is empty or
\* a member of the whitelist, and denied otherwise; with "https://a.com" on the
\* whitelist the gate allows "https://a.com" and denies "https://b.com".
C4_ProductionAllowIff ==
    /\ \A i \in 1..Len(requests) :
          requests[i].nodeEnv = "production" =>
             /\ Allowed(requests[i]) <=>
                   (Falsy(requests[i].origin) \/ requests[i].origin \in Range(whitelist))
             /\ Allowed(requests[i]) \/ Denied(requests[i])
    /\ OriginPolicy(<< "https://a.com" >>, "https://a.com", "production")
          = << [err |-> null, allow |-> TRUE] >>
    /\ OriginPolicy(<< "https://a.com" >>, "https://b.com", "production")[1].err # null

C4_Witness ==
    \E i, j \in 1..Len(requests) :
        /\ requests[i].nodeEnv = "production" /\ requests[j].nodeEnv = "production"
        /\ requests[i].origin = undefined /\ Allowed(requests[i])
        /\ requests[j].origin = "https://a.com" /\ Denied(requests[j])

\* C5: with the shipped whitelist, under "production" every request with a
\* non-empty origin is denied and every request with an empty origin is allowed,
\* however many requests came before it.
C5_ShippedWhitelistDeniesAll ==
    \A i \in 1..Len(requests) :
        requests[i].nodeEnv = "production" =>
            IF Falsy(requests[i].origin)
            THEN Allowed(requests[i]) /\ requests[i].stage # "rejected"
            ELSE Denied(requests[i]) /\ requests[i].stage = "rejected"

C5_Witness ==
    /\ Len(requests) = MaxRequests
    /\ requests[1].nodeEnv = "production"
    /\ requests[1].origin = "https://example.com" /\ Denied(requests[1])
    /\ requests[Len(requests)].origin = "https://example.com"
    /\ Denied(requests[Len(requests)])

\* C6: a denied request carries the explicit error "Not allowed by CORS" in its own
\* callback and nothing else happens: the sequencer stays LISTENING, process.exit is
\* not called, handling a request changes no bootstrap state, and every request has
\* the decision its own origin and environment name determine.
C6_DenialIsPerRequest ==
    /\ [](\A i \in 1..Len(requests) :
            Denied(requests[i]) =>
               /\ requests[i].callbacks = << [err |-> "Not allowed by CORS", allow |-> FALSE] >>
               /\ requests[i].stage = "rejected"
               /\ state = "LISTENING"
               /\ exitCalls = << >>
               /\ \A j \in 1..Len(requests) :
                     Denied(requests[j]) <=>
                        (requests[j].nodeEnv = "production" /\ ~Falsy(requests[j].origin)))
    /\ [][Len(requests') > Len(requests) => (state' = "LISTENING" /\ UNCHANGED bootVars)]_vars

C6_Witness ==
    \E i, j \in 1..Len(requests) :
        /\ i < j
        /\ Denied(requests[i])
        /\ Allowed(requests[j]) /\ requests[j].stage = "responded"
        /\ state = "LISTENING"

\* the decision of the gate for one request evaluated on its own, written as a
\* function of the origin and the environment name under the shipped (empty)
\* whitelist
DecisionAlone(o, e) ==
    IF e = "production" /\ o # undefined /\ o # ""
    THEN << [err |-> "Not allowed by CORS", allow |-> FALSE] >>
    ELSE << [err |-> null, allow |-> TRUE] >>

\* C7: the gate is pure: the result handed to a request's callback is the value of
\* one fixed function of its origin and the environment name it was evaluated
\* under; two evaluations with the same origin and environment name have the same
\* result whatever was evaluated before or in between; and the step that evaluates
\* a request adds that request's record and changes nothing else: no variable of
\* the process and no record of an earlier request.
C7_GateIsPure ==
    /\ [](\A i \in 1..Len(requests) :
            requests[i].callbacks = DecisionAlone(requests[i].origin, requests[i].nodeEnv))
    /\ [](\A i, j \in 1..Len(requests) :
            (requests[i].origin = requests[j].origin
               /\ requests[i].nodeEnv = requests[j].nodeEnv)
            => requests[i].callbacks = requests[j].callbacks)
    /\ [][Len(requests') # Len(requests) =>
            /\ UNCHANGED bootVars
            /\ Len(requests') = Len(requests) + 1
            /\ SubSeq(requests', 1, Len(requests)) = requests]_vars

\* two denied evaluations of one origin with an allowed evaluation of another
\* request in between
C7_Witness ==
    /\ Len(requests) = 3
    /\ requests[1].origin = "https://a.com" /\ requests[3].origin = "https://a.com"
    /\ requests[1].nodeEnv = "production"
    /\ requests[2].origin = undefined
    /\ Denied(requests[1]) /\ Allowed(requests[2]) /\ Denied(requests[3])

\* C8: once the resolver has run, a source was loaded exactly when the environment
\* name is not "production": none under "production", otherwise exactly one, the one
\* named .env.<environmentName> in the configuration directory; nothing is loaded
\* before the resolver runs or after it.
C8_LoadIffNotProduction ==
    IF pc \in {"import", "config"}
    THEN dotenvLoads = << >>
    ELSE /\ environmentName = "production" => dotenvLoads = << >>
         /\ environmentName # "production" =>
               dotenvLoads = << Cwd \o "/src/config/.env." \o environmentName >>
         /\ environmentName = "test" => dotenvLoads = << "/server/src/config/.env.test" >>

C8_Witness ==
    /\ environmentName = "test"
    /\ dotenvLoads = << "/server/src/config/.env.test" >>
    /\ pc = "listening"

\* C9: when NODE_ENV is unset or empty as the resolver runs, the environment name is
\* "development", the source loaded is .env.development and the non-production
\* branch is taken (one load, one Console transport).
C9_UnsetDefaultsToDevelopment ==
    [][(pc = "config" /\ Falsy(processEnv["NODE_ENV"]) /\ pc' # pc) =>
          /\ environmentName' = "development"
          /\ envFilePath' = "/server/src/config/.env.development"
          /\ dotenvLoads' = << "/server/src/config/.env.development" >>
          /\ consoleTransports' = 1]_vars

C9_Witness ==
    /\ processEnv["NODE_ENV"] = ""
    /\ environmentName = "development"
    /\ dotenvLoads = << "/server/src/config/.env.development" >>

\* C10: the resolver step always ends in CONFIG_LOADED with no process exit, also
\* when the selected source is absent; the sequencer is never FAILED before the
\* store-connection step has begun, and from CONFIG_LOADED that step is enabled.
C10_ConfigStepNeverFails ==
    /\ [][(pc = "config" /\ pc' # pc) =>
            (pc' = "initialize" /\ state' = "CONFIG_LOADED" /\ exitCalls' = << >>)]_vars
    /\ [](connectCalls = << >> => (state \in {"INIT", "CONFIG_LOADED"} /\ exitCalls = << >>))
    /\ [](pc = "initialize" => ENABLED initailizeApp)

C10_Witness ==
    /\ connectCalls # << >>
    /\ environmentName # "production"
    /\ dotenvLoads # << >>
    /\ ~ReadFile(fs, dotenvLoads[1]).exists

\* C11: the resolver loads at most once, and no component has read an environment
\* value before the resolver ran: app.js has chosen morgan's format from NODE_ENV
\* only in states where the resolver has already determined the environment.
C11_NoReadBeforeResolver ==
    /\ Len(dotenvLoads) <= 1
    /\ morganFormat # undefined => environmentName # undefined

\* C12: the environment name the gate read for a request (unset or empty read as
\* the fallback "development") is the one the resolver determined at startup.
C12_GateReadsResolvedName ==
    \A i \in 1..Len(requests) :
        Or(requests[i].nodeEnv, "development") = environmentName

\* the edges of the bootstrap state machine
BootstrapEdges ==
    { << "INIT", "CONFIG_LOADED" >>, << "CONFIG_LOADED", "STORE_CONNECTED" >>,
      << "STORE_CONNECTED", "LISTENING" >>,
      << "INIT", "FAILED" >>, << "CONFIG_LOADED", "FAILED" >> }

\* C13: every change of the bootstrap state follows an edge of
\* INIT -> CONFIG_LOADED -> STORE_CONNECTED -> LISTENING or INIT|CONFIG_LOADED -> FAILED.
C13_OnlyBootstrapEdges ==
    [][state' # state => << state, state' >> \in BootstrapEdges]_vars

\* C14: LISTENING and FAILED are terminal (no bootstrap state changes once either
\* is reached), no run is FAILED with a listener bound or has called process.exit
\* and app.listen both, and the listener phase is only entered with the store
\* connected and connectDB returned.
C14_TerminalAndExclusive ==
    /\ [][(state = "LISTENING" \/ state = "FAILED") => UNCHANGED bootVars]_vars
    /\ [](~(exitCalls # << >> /\ (bound \/ listenCalls # << >>)))
    /\ [](state = "FAILED" => ~bound)
    /\ []((listenCalls # << >> \/ pc \in {"binding", "listening"})
            => (dbReady /\ connectDBResult # pending))

C14_Witness ==
    /\ state = "LISTENING"
    /\ Len(requests) = MaxRequests
    /\ \A i \in 1..Len(requests) : requests[i].stage # "inflight"
    /\ exitCalls = << >>

\* the events a failed connection attempt logs
ErrorEvents ==
    { [level |-> "error", message |-> "MONGODB CONNECTION FAILED!!", err |-> c] :
        c \in {"MongooseServerSelectionError", "MongoParseError"} }

\* C15: process.exit is called only by the step that has just logged the failure:
\* the status is 1, the error event carrying the cause is the last log event, and
\* the step that exits is the one that logs, taken while the attempt is pending.
C15_LogThenExitOne ==
    /\ [](exitCalls # << >> =>
            /\ exitCalls = << 1 >>
            /\ log # << >>
            /\ log[Len(log)] \in ErrorEvents)
    /\ [][exitCalls' # exitCalls =>
            /\ pc = "connecting"
            /\ \E e \in ErrorEvents : log' = Append(log, e)
            /\ UNCHANGED << processEnv, connectCalls, dbReady, listenCalls, bound >>]_vars

C15_Witness ==
    /\ exitCalls = << 1 >>
    /\ Len(log) = 1
    /\ log[1].level = "error"
    /\ log[1].err = "MongoParseError"

\* C16: mongoose.connect is called at most once in a run, exactly once in every run
\* that has entered the store-connection step, and not again after a failure.
C16_SingleConnectAttempt ==
    /\ Len(connectCalls) <= 1
    /\ pc \in {"connecting", "connected", "binding", "listening", "exited"}
          => Len(connectCalls) = 1
    /\ Len(connectCalls) = 1 => pc # "initialize"

C16_Witness ==
    /\ ConnectFailed
    /\ Len(connectCalls) = 1
    /\ connectCalls[1] = "mongodb://localhost:27017/taskflow"

\* the readiness event of the store connector
StoreReadyEvent == [level |-> "info", message |-> "Database Connection Successful"]

\* C17 as claimed: once the store is connected, connectDB has handed the connection
\* handle to its caller and logged the readiness.
C17_ReturnsHandleAndLogs ==
    dbReady => (connectDBResult = connectionInstance /\ StoreReadyEvent \in Range(log))

\* C17 as amended: once the store is connected, connectDB has logged the readiness
\* (before app.listen is called) and has returned to its caller with no value.
C17_LogsAndReturnsNothing ==
    /\ dbReady => (connectDBResult = undefined /\ log[1] = StoreReadyEvent)
    /\ listenCalls # << >> => (dbReady /\ StoreReadyEvent \in Range(log))
    /\ connectDBResult \in {pending, undefined}

C17_Witness ==
    /\ pc = "connected"
    /\ dbReady
    /\ connectDBResult = undefined
    /\ log = << StoreReadyEvent >>

\* C18: app.listen is called once, with the configured port when PORT is set and
\* non-empty and with 8080 otherwise; the readiness event names that port.
C18_ConfiguredOrFallbackPort ==
    LET configured == processEnv["PORT"]
        effective == IF configured = undefined \/ configured = "" THEN "8080"
                     ELSE configured
    IN  /\ listenCalls # << >> => listenCalls = << effective >>
        /\ state = "LISTENING" =>
              log[Len(log)] = [level |-> "info",
                               message |-> "Server is listening on port " \o effective]

C18_Witness ==
    /\ state = "LISTENING"
    /\ environmentName = "development"
    /\ processEnv["PORT"] = "8080"
    /\ listenCalls = << "8080" >>

\* msg contains s as a substring
Contains(msg, s) ==
    \E i \in 1..(Len(msg) + 1 - Len(s)) : SubSeq(msg, i, i + Len(s) - 1) = s

\* C19: the readiness event logged on reaching LISTENING contains the effective
\* environment name and the effective port.
C19_ReadinessNamesEnvAndPort ==
    state = "LISTENING" =>
        /\ Contains(log[Len(log)].message, environmentName)
        /\ Contains(log[Len(log)].message, listenCalls[1])

\* C20: no request has been admitted, and the gate evaluated for none, in any state
\* other than LISTENING; a request is only ever taken with the listener bound.
C20_NoRequestBeforeListening ==
    /\ [](state # "LISTENING" => requests = << >>)
    /\ [][requests' # requests => (state = "LISTENING" /\ bound /\ dbReady)]_vars

C20_Witness ==
    /\ state = "LISTENING"
    /\ Len(requests) = 1
    /\ requests[1].stage = "inflight"


\* the store connection attempt / the listener start is in progress
ConnectInProgress == connectCalls # << >> /\ ~dbReady /\ ~ConnectFailed
ListenInProgress  == listenCalls # << >> /\ pc = "binding"

\* C21: the connection attempt starts only once the resolver has finished, the
\* listener start only once the attempt has finished (with success), the two are
\* never in progress together, and once a step has failed nothing runs.
C21_OrderedNonOverlappingSteps ==
    /\ [](connectCalls # << >> => (environmentName # undefined /\ pc # "config"))
    /\ [](listenCalls # << >> => (connectDBResult # pending /\ dbReady))
    /\ [](~(ConnectInProgress /\ ListenInProgress))
    /\ [][(ConnectFailed \/ state = "FAILED") => UNCHANGED vars]_vars

C21_Witness ==
    /\ ListenInProgress
    /\ ~ConnectInProgress
    /\ environmentName = "staging"

\* C22: whatever the interleaving of request arrivals and completions, every request
\* holds the decision that evaluating it alone gives, no step changes the decision
\* of a request already evaluated, and the environment the gate reads does not
\* change while requests are served.
C22_InterleavingKeepsDecisions ==
    /\ [](\A i \in 1..Len(requests) :
            requests[i].callbacks = DecisionAlone(requests[i].origin, processEnv["NODE_ENV"]))
    /\ [][\A i \in 1..Len(requests) :
            /\ requests'[i].callbacks = requests[i].callbacks
            /\ requests'[i].origin = requests[i].origin]_vars
    /\ [][(state = "LISTENING") => processEnv' = processEnv]_vars

C22_Witness ==
    /\ Len(requests) = 2
    /\ requests[1].stage = "inflight"
    /\ requests[2].stage = "rejected"
    /\ requests[1].origin = ""


\* C23: from the moment app.js has mounted the middleware, in every state of every
\* run and whatever the environment, the CORS response contract lists exactly the
\* methods GET, POST, PUT, PATCH, DELETE and exactly the headers Content-Type,
\* Authorization, enables credentials and answers a successful preflight with 204.
C23_CorsContractIsConstant ==
    pc # "import" =>
    /\ Range(corsContract.methods) = {"GET", "POST", "PUT", "PATCH", "DELETE"}
    /\ Len(corsContract.methods) = 5
    /\ Range(corsContract.allowedHeaders) = {"Content-Type", "Authorization"}
    /\ Len(corsContract.allowedHeaders) = 2
    /\ corsContract.credentials = TRUE
    /\ corsContract.preflightStatus = 204

C23_Witness ==
    /\ state = "LISTENING"
    /\ processEnv["NODE_ENV"] = "production"
    /\ Len(requests) = 2
    /\ requests[2].stage = "responded"


\* C24: once the store connection is ready it stays ready; mongoose.connect has
\* been called at most once, is not called again once the connection is ready, and
\* the connection handle never reaches the caller of connectDB.
C24_ReadyStaysReady ==
    /\ [][dbReady => dbReady']_vars
    /\ [](Len(connectCalls) <= 1)
    /\ [][dbReady => connectCalls' = connectCalls]_vars
    /\ [](connectDBResult # connectionInstance)
    /\ [](dbReady => Len(connectCalls) = 1)

C24_Witness ==
    /\ dbReady
    /\ bound
    /\ Len(connectCalls) = 1
    /\ connectDBResult = undefined
    /\ Len(requests) = 1

\* C26: the Console transport is attached exactly when the environment name the
\* resolver computed is not "production", never more than once, and only while no
\* connection attempt has started and nothing has been logged, so every log event
\* of a non-production run is emitted with the transport attached.
C26_ConsoleMirroring ==
    /\ [](consoleTransports <= 1)
    /\ [](environmentName = undefined => consoleTransports = 0)
    /\ [](environmentName # undefined =>
            (consoleTransports = 1 <=> environmentName # "production"))
    /\ [][consoleTransports' # consoleTransports =>
            (connectCalls = << >> /\ connectCalls' = << >> /\ log = << >> /\ log' = << >>)]_vars
    /\ []((log # << >> /\ environmentName # "production") => consoleTransports = 1)

C26_Witness ==
    /\ environmentName = "test"
    /\ consoleTransports = 1
    /\ Len(log) = 2
    /\ state = "LISTENING"

\* the listener readiness event
ListenerReadyEvent(e) ==
    e.level = "info" /\ Contains(e.message, "Server is listening on port ")

\* C27: a run that reaches LISTENING has logged exactly the store readiness and then
\* the listener readiness; a listener readiness event is in the log only when the
\* listener is bound and the store readiness precedes it, and never in a run whose
\* connection attempt failed.
C27_LogOrder ==
    /\ state = "LISTENING" =>
         (Len(log) = 2 /\ log[1] = StoreReadyEvent /\ ListenerReadyEvent(log[2]))
    /\ \A i \in 1..Len(log) :
         ListenerReadyEvent(log[i]) => (bound /\ i > 1 /\ log[1] = StoreReadyEvent)
    /\ ConnectFailed => ~(\E i \in 1..Len(log) : ListenerReadyEvent(log[i]))


\* a run outside production whose configuration source does not exist
MissingSourceRun ==
    /\ environmentName # undefined
    /\ environmentName # "production"
    /\ ReadFile(fs, envFilePath) = Absent

\* C25: a run outside production whose configuration source is missing and whose
\* store is connected does not fail and eventually reaches LISTENING; when the
\* environment sets no port the listener is bound to 8080.
C25_MissingSourceStillStarts ==
    /\ []((MissingSourceRun /\ dbReady) => state # "FAILED")
    /\ ((MissingSourceRun /\ dbReady) ~> (state = "LISTENING" /\ bound))
    /\ []((MissingSourceRun /\ state = "LISTENING" /\ Falsy(processEnv["PORT"]))
             => listenCalls = << "8080" >>)

\* C28: with every ready bootstrap step eventually taken and the connection attempt
\* eventually settled, every run reaches LISTENING or FAILED and a run whose store
\* is connected reaches LISTENING; the only steps that leave the pending attempt
\* are the two that settle it, so an attempt that never settles leaves the
\* sequencer in CONFIG_LOADED.
C28_BootstrapTerminates ==
    /\ <>(state = "LISTENING" \/ state = "FAILED")
    /\ (dbReady ~> (state = "LISTENING"))
    /\ [][(pc = "connecting" /\ pc' # "connecting") => (dbReady' \/ ConnectFailed')]_vars
    /\ [](pc = "connecting" => (state = "CONFIG_LOADED" /\ connectDBResult = pending))


\* C29: the promise of connectDB is pending or fulfilled with undefined, never
\* rejected and never fulfilled with a value; after a failed attempt it is still
\* pending, the process has exited with status 1 and app.listen was not called;
\* and once connectDB has returned to initailizeApp, startServer is the next step,
\* with no test of the outcome in between.
C29_FailureNeverReachesCaller ==
    /\ connectDBResult \in {pending, undefined}
    /\ ConnectFailed =>
         (connectDBResult = pending /\ pc = "exited" /\ exitCalls = << 1 >>
            /\ listenCalls = << >>)
    /\ pc = "exited" => connectDBResult = pending
    /\ (connectDBResult = undefined /\ listenCalls = << >>) => ENABLED startServer

C29_Witness ==
    /\ ConnectFailed
    /\ connectDBResult = pending
    /\ pc = "exited"
    /\ log[1].err = "MongooseServerSelectionError"

\* the two results the gate may hand to its callback
GateResults ==
    { [err |-> null, allow |-> TRUE], [err |-> "Not allowed by CORS", allow |-> FALSE] }

\* C30: every request the gate evaluated has had its callback invoked exactly once,
\* with (no error, allow) or with the policy-violation error; and for every origin
\* and every environment name the gate invokes the callback exactly once.
C30_CallbackExactlyOnce ==
    /\ \A i \in 1..Len(requests) :
         /\ Len(requests[i].callbacks) = 1
         /\ requests[i].callbacks[1] \in GateResults
    /\ \A o \in Origins, e \in NodeEnvValues :
         /\ Len(corsOptionsOrigin(o, e)) = 1
         /\ corsOptionsOrigin(o, e)[1] \in GateResults

C30_Witness ==
    /\ Len(requests) = 2
    /\ requests[1].callbacks = << [err |-> "Not allowed by CORS", allow |-> FALSE] >>
    /\ requests[2].callbacks = << [err |-> null, allow |-> TRUE] >>
    /\ requests[2].origin = undefined


\* string s ends with t
EndsWith(s, t) == Len(s) >= Len(t) /\ SubSeq(s, Len(s) - Len(t) + 1, Len(s)) = t

\* C31: every URI handed to mongoose.connect is the base URI of the environment
\* followed by "/" and "taskflow" (a base that is not set reads as "undefined"),
\* whatever the environment name; there is at most one such call, and serving
\* requests neither adds a call nor changes the base.
C31_UriIsBaseSlashTaskflow ==
    /\ [](\A i \in 1..Len(connectCalls) :
            /\ EndsWith(connectCalls[i], "/taskflow")
            /\ processEnv["MONGODB_URI"] # undefined
                 => connectCalls[i] = processEnv["MONGODB_URI"] \o "/" \o "taskflow"
            /\ processEnv["MONGODB_URI"] = undefined
                 => connectCalls[i] = "undefined/taskflow")
    /\ [](Len(connectCalls) <= 1)
    /\ [][Len(requests') # Len(requests) =>
            (connectCalls' = connectCalls
               /\ processEnv'["MONGODB_URI"] = processEnv["MONGODB_URI"])]_vars

C31_Witness ==
    /\ connectCalls = << "mongodb://db:27017/taskflow" >>
    /\ environmentName = "development"
    /\ dbReady
    /\ Len(requests) = 1

====
